---- MODULE Spec2Model ----
(***************************************************************************)
(* Model of lib/webdriver.py (class WebDriver): the header filter, the     *)
(* headless-mode selection, the session factory and the two entry          *)
(* operations set_headers and get_flights.                                 *)
(*                                                                         *)
(* Text is modelled as a tuple of one-character strings, so that the       *)
(* regular expression of _get_needed_headers and str() of a status code    *)
(* are computed character by character.  A Python dict is a sequence of    *)
(* <<key, value>> pairs with distinct keys, in insertion order.            *)
(***************************************************************************)
EXTENDS Integers, Sequences, FiniteSets, TLC

VARIABLES
    chrome_version,   \* checkin_scheduler.flight_retriever.config.chrome_version
    options,          \* self.options: the ChromeOptions arguments
    headers,          \* checkin_scheduler.headers
    first_name,       \* flight_retriever.first_name
    last_name,        \* flight_retriever.last_name
    username,         \* flight_retriever.username
    password,         \* flight_retriever.password
    op,               \* the entry operation being executed
    pc,               \* the position inside that operation
    driver,           \* the session of the current invocation (local driver)
    response,         \* local of get_flights: driver.requests[0].response
    response_body,    \* local of get_flights: json.loads(response.body)
    trips_body,       \* get_flights: json.loads(driver.requests[1].response.body)
    flights,          \* local of get_flights: the upcomingTripsPage listing
    outcome,          \* how the last invocation ended: return value or exception
    log,              \* the steps the current invocation has performed, in order
    entry,            \* the collaborators' fields when the invocation started
    sessions,         \* browser sessions created and not yet quit
    calls,            \* invocations started so far
    request_headers,  \* argument of a direct _get_needed_headers call
    needed,           \* value that direct call returned
    refiltered        \* value of the same call on that returned value

vars == <<chrome_version, options, headers, first_name, last_name, username,
          password, op, pc, driver, response, response_body, trips_body, flights,
          outcome, log, entry, sessions, calls, request_headers, needed, refiltered>>

(***************************************************************************)
(* Bounds of the model.                                                    *)
(***************************************************************************)
MaxHeaders == 2
MaxFlowHeaders == 2
MaxTrips == 2
MaxCalls == 2

None == "None"

(***************************************************************************)
(* Characters and text.                                                    *)
(***************************************************************************)
UpperSeq == <<"A","B","C","D","E","F","G","H","I","J","K","L","M",
              "N","O","P","Q","R","S","T","U","V","W","X","Y","Z">>
LowerSeq == <<"a","b","c","d","e","f","g","h","i","j","k","l","m",
              "n","o","p","q","r","s","t","u","v","w","x","y","z">>
DigitSeq == <<"0","1","2","3","4","5","6","7","8","9">>

Range(s) == {s[i] : i \in 1..Len(s)}

\* re.I: the case folding applied to both the pattern and the subject.
Lower(c) ==
    IF c \in Range(UpperSeq)
    THEN LowerSeq[CHOOSE i \in 1..Len(UpperSeq) : UpperSeq[i] = c]
    ELSE c

\* \w of the pattern: letters, digits and the underscore.
IsWord(c) == c \in Range(UpperSeq) \cup Range(LowerSeq) \cup Range(DigitSeq) \cup {"_"}

\* [\w-] of the pattern.
InClass(c) == IsWord(c) \/ c = "-"

\* The three literal alternatives of the pattern, as written in the source.
PatApiKey == <<"x","-","a","p","i","-","k","e","y">>
PatChannelId == <<"x","-","c","h","a","n","n","e","l","-","i","d">>
PatUserAgent == <<"u","s","e","r","-","a","g","e","n","t">>

\* One pattern character against one subject character; fold = re.I is set.
CharEq(fold, p, c) == IF fold THEN Lower(p) = Lower(c) ELSE p = c

\* A literal alternative under re.match: it must match at position 0 and may
\* be followed by anything.
MatchLiteral(fold, lit, s) ==
    /\ Len(s) >= Len(lit)
    /\ \A i \in 1..Len(lit) : CharEq(fold, lit[i], s[i])

\* $ : the end of the subject, or just before a newline that ends it.
AtEnd(s, n) == n = Len(s) \/ (n + 1 = Len(s) /\ s[n + 1] = "\n")

\* -\w$ after the lazy repetition consumed s[1..k].
MatchTail(s, k) ==
    /\ k + 2 <= Len(s)
    /\ s[k + 1] = "-"
    /\ IsWord(s[k + 2])
    /\ AtEnd(s, k + 2)

\* [\w-]+? : take one more character, try the rest, extend on failure.
RECURSIVE LazyPlus(_, _)
LazyPlus(s, k) ==
    IF k > Len(s) \/ ~InClass(s[k]) THEN FALSE
    ELSE IF MatchTail(s, k) THEN TRUE
    ELSE LazyPlus(s, k + 1)

\* re.match(r"x-api-key|x-channel-id|user-agent|^[\w-]+?-\w$", header, flags)
ReMatchFlags(fold, header) ==
    \/ MatchLiteral(fold, PatApiKey, header)
    \/ MatchLiteral(fold, PatChannelId, header)
    \/ MatchLiteral(fold, PatUserAgent, header)
    \/ LazyPlus(header, 1)

\* The same call without re.I.
ReMatchCaseSensitive(header) == ReMatchFlags(FALSE, header)

ReMatch(header) == ReMatchFlags(TRUE, header)

(***************************************************************************)
(* Dicts.                                                                  *)
(***************************************************************************)
EmptyDict == <<>>

Keys(d) == {d[i][1] : i \in 1..Len(d)}

Items(d) == Range(d)

DictGet(d, k) == (CHOOSE p \in Range(d) : p[1] = k)[2]

\* d[k] = v : an existing key keeps its place, a new key is appended.
DictSet(d, k, v) ==
    IF k \in Keys(d)
    THEN [i \in 1..Len(d) |-> IF d[i][1] = k THEN <<k, v>> ELSE d[i]]
    ELSE Append(d, <<k, v>>)

\* The loop of _get_needed_headers from its i-th key on.
RECURSIVE NeededFrom(_, _, _)
NeededFrom(rh, i, acc) ==
    IF i > Len(rh) THEN acc
    ELSE LET header == rh[i][1]
         IN  IF ReMatch(header)
             THEN NeededFrom(rh, i + 1, DictSet(acc, header, DictGet(rh, header)))
             ELSE NeededFrom(rh, i + 1, acc)

\* A loop that starts at the second key of its argument.
NeededSkipsFirst(rh) == NeededFrom(rh, 2, EmptyDict)

get_needed_headers(rh) == NeededFrom(rh, 1, EmptyDict)

(***************************************************************************)
(* Header names and header sets the intercepted request may carry.         *)
(***************************************************************************)
NameApiKey == <<"X","-","A","P","I","-","K","e","y">>
NameChannelId == <<"x","-","c","h","a","n","n","e","l","-","i","d">>
NameUserAgent == <<"U","s","e","r","-","A","g","e","n","t">>
NameCookie == <<"C","o","o","k","i","e">>
NameAccept == <<"A","c","c","e","p","t">>
NameTagged == <<"E","E","3","_","z","-","a">>
NameTaggedNewline == <<"a","b","-","c","\n">>
NameTwoCharTag == <<"a","b","-","c","d">>
NameBareTag == <<"-","a">>
NameDashes == <<"-","-","A">>
NameSpace == <<"a"," ","b","-","c">>
NameApiKeyTail == <<"x","-","a","p","i","-","k","e","y","-","o","l","d">>
NameInnerMarker == <<"m","y","-","x","-","a","p","i","-","k","e","y">>

HeaderNames ==
    {NameApiKey, NameChannelId, NameUserAgent, NameCookie, NameAccept, NameTagged,
     NameTaggedNewline, NameTwoCharTag, NameBareTag, NameDashes, NameSpace,
     NameApiKeyTail, NameInnerMarker}

\* The names an intercepted request of the two flows carries.
FlowHeaderNames == {NameApiKey, NameCookie, NameTagged}

HeaderValues == {"abc", "zzz"}

FlowHeaderValues == {"abc"}

\* All dicts of at most max entries with the given names and values.
HeaderDicts(names, values, max) ==
    {d \in UNION {[1..n -> names \X values] : n \in 0..max} :
        \A i, j \in 1..Len(d) : d[i][1] = d[j][1] => i = j}

\* The header sets _get_needed_headers is called with on its own.
UnitHeaderDicts == HeaderDicts(HeaderNames, HeaderValues, MaxHeaders)

\* The order in which the browser sends the headers of a request.
FlowHeaderOrder == <<NameApiKey, NameCookie, NameTagged>>

\* The header sets of the first intercepted request of a flow: any of the
\* flow's names, in the browser's order.
FlowHeaderDicts ==
    {d \in HeaderDicts(FlowHeaderNames, FlowHeaderValues, MaxFlowHeaders) :
        \A i, j \in 1..Len(d) :
            i < j => \E a, b \in 1..Len(FlowHeaderOrder) :
                        /\ a < b
                        /\ FlowHeaderOrder[a] = d[i][1]
                        /\ FlowHeaderOrder[b] = d[j][1]}

(***************************************************************************)
(* _get_options.                                                           *)
(***************************************************************************)
\* "--user-agent=" + USER_AGENT
UserAgentArg ==
    "--user-agent=Mozilla/5.0 (X11; Linux x86_64; rv:96.0) Gecko/20100101 Firefox/96.0"

HeadlessThreshold == 109

\* An optional integer: <<>> is None, <<v>> is the integer v.
Absent == <<>>
Hint(v) == <<v>>

ChromeVersions == {Absent} \cup {Hint(v) : v \in {0, 1, 108, 109, 110}}

\* Python's `not chrome_version`: None and 0 are both falsy.
Falsy(cv) == cv = Absent \/ cv[1] = 0

\* not chrome_version or chrome_version >= 109
HeadlessNew(cv) == Falsy(cv) \/ cv[1] >= HeadlessThreshold

get_options(cv) ==
    <<"--disable-dev-shm-usage",
      UserAgentArg,
      IF HeadlessNew(cv) THEN "--headless=new" ELSE "--headless=chrome">>

(***************************************************************************)
(* str(response.status_code).                                              *)
(***************************************************************************)
StatusCodes == {200, 302, 403, 500}

RECURSIVE StrNat(_)
StrNat(n) ==
    IF n < 10 THEN <<DigitSeq[n + 1]>>
    ELSE Append(StrNat(n \div 10), DigitSeq[(n % 10) + 1])

(***************************************************************************)
(* Response bodies.                                                        *)
(***************************************************************************)
FIRST_NAME_KEY == "customers.userInformation.firstName"
LAST_NAME_KEY == "customers.userInformation.lastName"
TRIPS_KEY == "upcomingTripsPage"

FirstNames == {"Ann", "Bob"}
LastNames == {"Lee", "Kim"}

\* What json.loads makes of a body: valid = FALSE is a body that is no JSON.
InvalidJson == [valid |-> FALSE, json |-> EmptyDict]
Json(d) == [valid |-> TRUE, json |-> d]

LoginBodies ==
    {InvalidJson, Json(EmptyDict)}
    \cup {Json(<<<<FIRST_NAME_KEY, f>>>>) : f \in FirstNames}
    \cup {Json(<<<<LAST_NAME_KEY, l>>>>) : l \in LastNames}
    \cup {Json(<<<<FIRST_NAME_KEY, "Ann">>, <<LAST_NAME_KEY, "Lee">>>>),
          Json(<<<<FIRST_NAME_KEY, "Bob">>, <<LAST_NAME_KEY, "Kim">>>>)}

Trip(type, number) == <<<<"tripType", type>>, <<"confirmationNumber", number>>>>

TripPool ==
    {Trip("FLIGHT", "AAA111"), Trip("FLIGHT", "BBB222"), Trip("CAR", "CCC333"),
     Trip("flight", "DDD444"), <<<<"confirmationNumber", "EEE555">>>>}

TripLists == UNION {[1..n -> TripPool] : n \in 0..MaxTrips}

TripsBodies ==
    {InvalidJson, Json(EmptyDict)} \cup {Json(<<<<TRIPS_KEY, t>>>>) : t \in TripLists}

\* [flight for flight in flights if flight["tripType"] == "FLIGHT"] from the
\* i-th entry on: ok = FALSE is the KeyError of an entry without "tripType".
RECURSIVE FlightsFrom(_, _, _)
FlightsFrom(fl, i, acc) ==
    IF i > Len(fl) THEN [ok |-> TRUE, value |-> acc]
    ELSE IF "tripType" \notin Keys(fl[i]) THEN [ok |-> FALSE, value |-> <<>>]
    ELSE IF DictGet(fl[i], "tripType") = "FLIGHT"
         THEN FlightsFrom(fl, i + 1, Append(acc, fl[i]))
         ELSE FlightsFrom(fl, i + 1, acc)

\* A filter that keeps the entries but returns the newest first.
OnlyFlightsReversed(fl) ==
    LET r == FlightsFrom(fl, 1, <<>>)
    IN  [ok |-> r.ok,
         value |-> [i \in 1..Len(r.value) |-> r.value[Len(r.value) + 1 - i]]]

\* A filter that passes over an entry without "tripType" instead of failing.
OnlyFlightsLenient(fl) ==
    [ok |-> TRUE,
     value |-> SelectSeq(fl, LAMBDA f :
                   "tripType" \in Keys(f) /\ DictGet(f, "tripType") = "FLIGHT")]

OnlyFlights(fl) == FlightsFrom(fl, 1, <<>>)

(***************************************************************************)
(* The browser session and the intercepted traffic.                        *)
(***************************************************************************)
LOGIN_URL == "https://mobile.southwest.com/api/security/v4/security/token"
TRIPS_URL == "https://mobile.southwest.com/api/mobile-misc/v1/mobile-misc/page/upcoming-trips"
CHECKIN_URL == "https://mobile.southwest.com/check-in"
RESERVATION_URL ==
    "https://mobile.southwest.com/api/mobile-air-operations/v1/mobile-air-operations/page/check-in/"

\* How many requests to the scoped URLs a session has intercepted.  Only
\* requests[0] and requests[1] are ever read: two stands for two or more.
RequestCounts == {0, 1, 2}

\* No session: the local `driver` before Chrome(...) returned.
NoDriver ==
    [created |-> FALSE, open |-> FALSE, scopes |-> <<>>, url |-> "",
     version_main |-> Absent, arguments |-> <<>>, requests |-> 0,
     headers0 |-> EmptyDict]

\* Chrome(options=..., seleniumwire_options=..., version_main=...): a new
\* session intercepts every URL (empty scopes) and shows no page yet.
NewDriver(opts, cv) ==
    [created |-> TRUE, open |-> TRUE, scopes |-> <<>>, url |-> "",
     version_main |-> cv, arguments |-> opts, requests |-> 0,
     headers0 |-> EmptyDict]

\* A return without teardown.
QuitSkipped(d) == d

\* driver.quit()
QuitDriver(d) == [d EXCEPT !.open = FALSE]

\* A request's response: present = FALSE is None (no response was received).
\* Its body is read where json.loads is applied to it.
NoResponse == [present |-> FALSE, status_code |-> 0]

OkResponse == [present |-> TRUE, status_code |-> 200]

Responses == {NoResponse} \cup {[present |-> TRUE, status_code |-> c] : c \in StatusCodes}

\* A check that lets redirects through.
LoginFailedOnlyOnErrors(status_code) == status_code >= 400

\* The comparison the wrong way round.
LoginFailedInverted(status_code) == status_code = 200

\* response.status_code != 200
LoginFailed(status_code) == status_code # 200

\* headers.update(...) instead of an assignment.
MergeHeaders(old, new) ==
    LET RECURSIVE Upd(_, _)
        Upd(acc, i) ==
            IF i > Len(new) THEN acc
            ELSE Upd(DictSet(acc, new[i][1], new[i][2]), i + 1)
    IN  Upd(old, 1)

\* self.checkin_scheduler.headers = <new>
StoreHeaders(old, new) == new

(***************************************************************************)
(* Outcomes of an invocation.                                              *)
(***************************************************************************)
NoOutcome == [kind |-> "none", exc |-> "", detail |-> <<>>, value |-> <<>>]
Returned(v) == [kind |-> "return", exc |-> "", detail |-> <<>>, value |-> v]
Raised(e, d) == [kind |-> "raise", exc |-> e, detail |-> d, value |-> <<>>]

Snapshot ==
    [headers |-> headers, first_name |-> first_name, last_name |-> last_name,
     username |-> username, password |-> password, sessions |-> sessions]

\* The element waits of each operation, in program order.
WaitSteps(o) ==
    IF o = "set_headers"
    THEN <<"recordLocator", "firstName", "lastName">>
    ELSE <<"login-button--box", "userNameOrAccountNumber", "password">>

AllWaitSteps == Range(WaitSteps("set_headers")) \cup Range(WaitSteps("get_flights"))

\* A form flow that submits as soon as its first field is filled in.
AfterWaitSubmitsEarly(o, step) == "submit"

\* The statement after the wait `step` of operation o.
AfterWait(o, step) ==
    LET w == WaitSteps(o)
        i == CHOOSE k \in 1..Len(w) : w[k] = step
    IN  IF i < Len(w) THEN w[i + 1] ELSE "submit"

\* A wait that polls again after its timeout.
TimeoutRetries(step) == step

\* WebDriverWait(driver, 30).until(...) raises TimeoutException: the
\* invocation ends.
TimeoutEnds(step) == "done"

(***************************************************************************)
(* The entry operations, statement by statement.                           *)
(***************************************************************************)
UnitVarsUnchanged == UNCHANGED <<request_headers, needed, refiltered>>

\* No statement of the class assigns flight_retriever.username or .password.
AccountUnchanged == UNCHANGED <<username, password>>

\* A local holding parsed JSON: unassigned until its json.loads has returned.
Unassigned == [assigned |-> FALSE, json |-> EmptyDict]

Parsed(d) == [assigned |-> TRUE, json |-> d]

\* The exception leaves the function: nothing after the raising statement runs.
Raise(step, e, d) ==
    /\ pc' = "done"
    /\ outcome' = Raised(e, d)
    /\ log' = Append(log, step)

Step(step, next) ==
    /\ pc' = next
    /\ log' = Append(log, step)
    /\ UNCHANGED outcome

\* The scheduler calls set_headers() or get_flights(flight_retriever).
Call(o) ==
    /\ pc \in {"idle", "done"}
    /\ calls < MaxCalls
    /\ op' = o
    /\ pc' = "Chrome"
    /\ calls' = calls + 1
    /\ entry' = Snapshot
    /\ log' = <<>>
    /\ outcome' = NoOutcome
    /\ driver' = NoDriver
    /\ response' = NoResponse
    /\ response_body' = Unassigned
    /\ trips_body' = Unassigned
    /\ flights' = <<>>
    /\ UNCHANGED <<chrome_version, options, headers, first_name, last_name, sessions>>
    /\ UnitVarsUnchanged
    /\ AccountUnchanged

CallSetHeaders == Call("set_headers")

CallGetFlights == Call("get_flights")

\* A factory that constructs a session, drops it and constructs another.
ChromeStartsTwice ==
    /\ pc = "Chrome"
    /\ driver' = NewDriver(options, chrome_version)
    /\ sessions' = sessions + 2
    /\ Step("Chrome", "scopes")
    /\ UNCHANGED <<chrome_version, options, headers, first_name, last_name, op,
                   response, flights, entry, calls>>
    /\ UnitVarsUnchanged
    /\ AccountUnchanged
    /\ UNCHANGED <<response_body, trips_body>>

\* _get_driver: driver = Chrome(...)
ChromeStarts ==
    /\ pc = "Chrome"
    /\ driver' = NewDriver(options, chrome_version)
    /\ sessions' = sessions + 1
    /\ Step("Chrome", "scopes")
    /\ UNCHANGED <<chrome_version, options, headers, first_name, last_name, op,
                   response, flights, entry, calls>>
    /\ UnitVarsUnchanged
    /\ AccountUnchanged
    /\ UNCHANGED <<response_body, trips_body>>

\* _get_driver: Chrome(...) raises; no session exists.
ChromeFails ==
    /\ pc = "Chrome"
    /\ Raise("Chrome", "WebDriverException", <<>>)
    /\ UNCHANGED <<chrome_version, options, headers, first_name, last_name, op,
                   driver, response, flights, entry, sessions, calls>>
    /\ UnitVarsUnchanged
    /\ AccountUnchanged
    /\ UNCHANGED <<response_body, trips_body>>

\* A factory that goes on to the navigation with the scope it was created with.
ScopesLeftOpen ==
    /\ pc = "scopes"
    /\ Step("scopes", "get")
    /\ UNCHANGED <<chrome_version, options, headers, first_name, last_name, op,
                   driver, response, flights, entry, sessions, calls>>
    /\ UnitVarsUnchanged
    /\ AccountUnchanged
    /\ UNCHANGED <<response_body, trips_body>>

\* _get_driver: driver.scopes = [LOGIN_URL, TRIPS_URL, RESERVATION_URL]
SetScopes ==
    /\ pc = "scopes"
    /\ driver' = [driver EXCEPT !.scopes = <<LOGIN_URL, TRIPS_URL, RESERVATION_URL>>]
    /\ Step("scopes", "get")
    /\ UNCHANGED <<chrome_version, options, headers, first_name, last_name, op,
                   response, flights, entry, sessions, calls>>
    /\ UnitVarsUnchanged
    /\ AccountUnchanged
    /\ UNCHANGED <<response_body, trips_body>>

\* _get_driver: driver.get(CHECKIN_URL); return driver
Navigate ==
    /\ pc = "get"
    /\ driver' = [driver EXCEPT !.url = CHECKIN_URL]
    /\ Step("get", WaitSteps(op)[1])
    /\ UNCHANGED <<chrome_version, options, headers, first_name, last_name, op,
                   response, flights, entry, sessions, calls>>
    /\ UnitVarsUnchanged
    /\ AccountUnchanged
    /\ UNCHANGED <<response_body, trips_body>>

\* _get_driver: driver.get(CHECKIN_URL) raises.
NavigateFails ==
    /\ pc = "get"
    /\ Raise("get", "WebDriverException", <<>>)
    /\ UNCHANGED <<chrome_version, options, headers, first_name, last_name, op,
                   driver, response, flights, entry, sessions, calls>>
    /\ UnitVarsUnchanged
    /\ AccountUnchanged
    /\ UNCHANGED <<response_body, trips_body>>

\* WebDriverWait(driver, 30).until(...) finds the element; it is filled in
\* (send_keys) or clicked.
WaitFound ==
    /\ pc \in Range(WaitSteps(op))
    /\ Step(pc, AfterWait(op, pc))
    /\ UNCHANGED <<chrome_version, options, headers, first_name, last_name, op,
                   driver, response, flights, entry, sessions, calls>>
    /\ UnitVarsUnchanged
    /\ AccountUnchanged
    /\ UNCHANGED <<response_body, trips_body>>

\* A wait whose timeout releases the session before the exception leaves.
WaitTimeoutQuits ==
    /\ pc \in Range(WaitSteps(op))
    /\ driver' = QuitDriver(driver)
    /\ sessions' = sessions - 1
    /\ Raise(pc, "TimeoutException", <<>>)
    /\ UNCHANGED <<chrome_version, options, headers, first_name, last_name, op,
                   response, flights, entry, calls>>
    /\ UnitVarsUnchanged
    /\ AccountUnchanged
    /\ UNCHANGED <<response_body, trips_body>>

\* A wait without a timeout: it polls again and nothing changes.
WaitPollsForever ==
    /\ pc \in Range(WaitSteps(op))
    /\ UNCHANGED vars

\* WebDriverWait(driver, 30).until(...) gives up after its 30 seconds.
WaitTimeout ==
    /\ pc \in Range(WaitSteps(op))
    /\ pc' = TimeoutEnds(pc)
    /\ log' = Append(log, pc)
    /\ outcome' = IF pc' = "done" THEN Raised("TimeoutException", <<>>) ELSE outcome
    /\ UNCHANGED <<chrome_version, options, headers, first_name, last_name, op,
                   driver, response, flights, entry, sessions, calls>>
    /\ UnitVarsUnchanged
    /\ AccountUnchanged
    /\ UNCHANGED <<response_body, trips_body>>

\* last_name_element.submit() / password_element.submit()
Submit ==
    /\ pc = "submit"
    /\ Step("submit", "sleep")
    /\ UNCHANGED <<chrome_version, options, headers, first_name, last_name, op,
                   driver, response, flights, entry, sessions, calls>>
    /\ UnitVarsUnchanged
    /\ AccountUnchanged
    /\ UNCHANGED <<response_body, trips_body>>

\* _set_headers_from_request: time.sleep(10).  Whatever the page sent to the
\* scoped URLs during the interval is now in driver.requests.
Sleep ==
    /\ pc = "sleep"
    /\ \E n \in RequestCounts :
        \E h \in FlowHeaderDicts :
            /\ n = 0 => h = EmptyDict
            /\ driver' = [driver EXCEPT !.requests = n, !.headers0 = h]
    /\ Step("sleep", "capture")
    /\ UNCHANGED <<chrome_version, options, headers, first_name, last_name, op,
                   response, flights, entry, sessions, calls>>
    /\ UnitVarsUnchanged
    /\ AccountUnchanged
    /\ UNCHANGED <<response_body, trips_body>>

\* A capture that empties the header set before it looks at the requests.
CaptureClearsFirst ==
    /\ pc = "capture"
    /\ IF driver.requests = 0
       THEN /\ Raise("capture", "IndexError", <<>>)
            /\ headers' = EmptyDict
       ELSE /\ headers' = StoreHeaders(headers, get_needed_headers(driver.headers0))
            /\ Step("capture", IF op = "set_headers" THEN "quit" ELSE "status")
    /\ UNCHANGED <<chrome_version, options, first_name, last_name, op, driver,
                   response, flights, entry, sessions, calls>>
    /\ UnitVarsUnchanged
    /\ AccountUnchanged
    /\ UNCHANGED <<response_body, trips_body>>

\* A login flow that inspects the status before it refreshes the headers: a
\* get_flights leaves the capture step with the header set as it was.
CaptureAfterStatus ==
    /\ pc = "capture"
    /\ IF driver.requests = 0
       THEN /\ Raise("capture", "IndexError", <<>>)
            /\ UNCHANGED headers
       ELSE /\ headers' = IF op = "set_headers"
                          THEN StoreHeaders(headers, get_needed_headers(driver.headers0))
                          ELSE headers
            /\ Step("capture", IF op = "set_headers" THEN "quit" ELSE "status")
    /\ UNCHANGED <<chrome_version, options, first_name, last_name, op, driver,
                   response, flights, entry, sessions, calls>>
    /\ UnitVarsUnchanged
    /\ AccountUnchanged
    /\ UNCHANGED <<response_body, trips_body>>

\* _set_headers_from_request: request_headers = driver.requests[0].headers;
\* self.checkin_scheduler.headers = self._get_needed_headers(request_headers)
Capture ==
    /\ pc = "capture"
    /\ IF driver.requests = 0
       THEN /\ Raise("capture", "IndexError", <<>>)
            /\ UNCHANGED headers
       ELSE /\ headers' = StoreHeaders(headers, get_needed_headers(driver.headers0))
            /\ Step("capture", IF op = "set_headers" THEN "quit" ELSE "status")
    /\ UNCHANGED <<chrome_version, options, first_name, last_name, op, driver,
                   response, flights, entry, sessions, calls>>
    /\ UnitVarsUnchanged
    /\ AccountUnchanged
    /\ UNCHANGED <<response_body, trips_body>>

\* _set_account_name: the two assignments in program order.  ok = FALSE is the
\* KeyError of the first key that is absent; an assignment made before it stays.
set_account_name(fn, ln, body) ==
    IF FIRST_NAME_KEY \notin Keys(body)
    THEN [ok |-> FALSE, first_name |-> fn, last_name |-> ln]
    ELSE IF LAST_NAME_KEY \notin Keys(body)
    THEN [ok |-> FALSE, first_name |-> DictGet(body, FIRST_NAME_KEY), last_name |-> ln]
    ELSE [ok |-> TRUE, first_name |-> DictGet(body, FIRST_NAME_KEY),
          last_name |-> DictGet(body, LAST_NAME_KEY)]

\* flight_retriever.first_name is None
NameUnset(fn) == fn = None

\* get_flights: response = driver.requests[0].response;
\* if response.status_code != 200: raise LoginError(str(response.status_code))
Status ==
    /\ pc = "status"
    /\ \E r \in Responses :
        /\ response' = r
        /\ IF ~r.present
           THEN Raise("status", "AttributeError", <<>>)
           ELSE IF LoginFailed(r.status_code)
           THEN Raise("status", "LoginError", StrNat(r.status_code))
           ELSE Step("status", IF NameUnset(first_name) THEN "identity" ELSE "trips")
    /\ UNCHANGED <<chrome_version, options, headers, first_name, last_name, op,
                   driver, flights, entry, sessions, calls>>
    /\ UnitVarsUnchanged
    /\ AccountUnchanged
    /\ UNCHANGED <<response_body, trips_body>>

\* get_flights: response_body = json.loads(response.body);
\* self._set_account_name(flight_retriever, response_body); print(...)
Identity ==
    /\ pc = "identity"
    /\ \E body \in LoginBodies :
        IF ~body.valid
        THEN /\ Raise("identity", "JSONDecodeError", <<>>)
             /\ UNCHANGED <<first_name, last_name, response_body>>
        ELSE LET r == set_account_name(first_name, last_name, body.json)
             IN  /\ response_body' = Parsed(body.json)
                 /\ first_name' = r.first_name
                 /\ last_name' = r.last_name
                 /\ IF r.ok
                    THEN Step("identity", "trips")
                    ELSE Raise("identity", "KeyError", <<>>)
    /\ UNCHANGED <<chrome_version, options, headers, op, driver, response, flights,
                   entry, sessions, calls>>
    /\ UnitVarsUnchanged
    /\ AccountUnchanged
    /\ UNCHANGED trips_body

\* get_flights: flights = json.loads(driver.requests[1].response.body)["upcomingTripsPage"]
Trips ==
    /\ pc = "trips"
    /\ IF driver.requests < 2
       THEN /\ Raise("trips", "IndexError", <<>>)
            /\ UNCHANGED <<flights, trips_body>>
       ELSE \E r \in {NoResponse, OkResponse}, body \in TripsBodies :
            IF ~r.present
            THEN /\ Raise("trips", "AttributeError", <<>>)
                 /\ UNCHANGED <<flights, trips_body>>
            ELSE IF ~body.valid
            THEN /\ Raise("trips", "JSONDecodeError", <<>>)
                 /\ UNCHANGED <<flights, trips_body>>
            ELSE IF TRIPS_KEY \notin Keys(body.json)
            THEN /\ trips_body' = Parsed(body.json)
                 /\ Raise("trips", "KeyError", <<>>)
                 /\ UNCHANGED flights
            ELSE /\ trips_body' = Parsed(body.json)
                 /\ flights' = DictGet(body.json, TRIPS_KEY)
                 /\ Step("trips", "quit")
    /\ UNCHANGED <<chrome_version, options, headers, first_name, last_name, op,
                   driver, response, entry, sessions, calls>>
    /\ UnitVarsUnchanged
    /\ AccountUnchanged
    /\ UNCHANGED response_body

\* driver.quit()
Quit ==
    /\ pc = "quit"
    /\ driver' = QuitDriver(driver)
    /\ sessions' = IF driver'.open THEN sessions ELSE sessions - 1
    /\ Step("quit", "return")
    /\ UNCHANGED <<chrome_version, options, headers, first_name, last_name, op,
                   response, flights, entry, calls>>
    /\ UnitVarsUnchanged
    /\ AccountUnchanged
    /\ UNCHANGED <<response_body, trips_body>>

\* A probe that hands the header set it stored back to its caller.
ReturnsHeaderSet ==
    /\ pc = "return"
    /\ op = "set_headers"
    /\ pc' = "done"
    /\ outcome' = Returned(headers)
    /\ log' = Append(log, "return")
    /\ UNCHANGED <<chrome_version, options, headers, first_name, last_name, op,
                   driver, response, flights, entry, sessions, calls>>
    /\ UnitVarsUnchanged
    /\ AccountUnchanged
    /\ UNCHANGED <<response_body, trips_body>>

\* set_headers falls off its end: it returns None.
ReturnNone ==
    /\ pc = "return"
    /\ op = "set_headers"
    /\ pc' = "done"
    /\ outcome' = Returned(<<>>)
    /\ log' = Append(log, "return")
    /\ UNCHANGED <<chrome_version, options, headers, first_name, last_name, op,
                   driver, response, flights, entry, sessions, calls>>
    /\ UnitVarsUnchanged
    /\ AccountUnchanged
    /\ UNCHANGED <<response_body, trips_body>>

\* get_flights: return [flight for flight in flights if flight["tripType"] == "FLIGHT"]
ReturnFlights ==
    /\ pc = "return"
    /\ op = "get_flights"
    /\ LET r == OnlyFlights(flights)
       IN  IF r.ok
           THEN /\ pc' = "done"
                /\ outcome' = Returned(r.value)
                /\ log' = Append(log, "return")
           ELSE Raise("return", "KeyError", <<>>)
    /\ UNCHANGED <<chrome_version, options, headers, first_name, last_name, op,
                   driver, response, flights, entry, sessions, calls>>
    /\ UnitVarsUnchanged
    /\ AccountUnchanged
    /\ UNCHANGED <<response_body, trips_body>>

(***************************************************************************)
(* The two entry operations under the scheduler's calls.                   *)
(***************************************************************************)
\* The account the flows run for.
Username == "user"

Password == "secret"

\* The configurations the flows run under: no chrome_version, or an old one.
FlowChromeVersions == {Absent, Hint(108)}

Idle ==
    /\ op = "idle"
    /\ pc = "idle"
    /\ driver = NoDriver
    /\ response = NoResponse
    /\ flights = <<>>
    /\ outcome = NoOutcome
    /\ log = <<>>
    /\ sessions = 0
    /\ calls = 0
    /\ headers = EmptyDict
    /\ first_name = None
    /\ last_name = None
    /\ username = Username
    /\ password = Password
    /\ response_body = Unassigned
    /\ trips_body = Unassigned
    /\ entry = Snapshot

\* WebDriver.__init__ has run: self.options = self._get_options()
Init ==
    /\ chrome_version \in FlowChromeVersions
    /\ options = get_options(chrome_version)
    /\ Idle
    /\ request_headers = EmptyDict
    /\ needed = EmptyDict
    /\ refiltered = EmptyDict

Next ==
    \/ CallSetHeaders
    \/ CallGetFlights
    \/ ChromeStarts
    \/ ChromeFails
    \/ SetScopes
    \/ Navigate
    \/ NavigateFails
    \/ WaitFound
    \/ WaitTimeout
    \/ Submit
    \/ Sleep
    \/ Capture
    \/ Status
    \/ Identity
    \/ Trips
    \/ Quit
    \/ ReturnNone
    \/ ReturnFlights

Spec == Init /\ [][Next]_vars

(***************************************************************************)
(* The pure methods on their own: __init__ (which calls _get_options) for  *)
(* every configured browser version, and _get_needed_headers for every     *)
(* header set within the bounds.                                           *)
(***************************************************************************)
InitUnit ==
    /\ chrome_version \in ChromeVersions
    /\ options = <<>>
    /\ request_headers \in UnitHeaderDicts
    /\ needed = EmptyDict
    /\ refiltered = EmptyDict
    /\ Idle

\* WebDriver.__init__: self.options = self._get_options()
Construct ==
    /\ options = <<>>
    /\ options' = get_options(chrome_version)
    /\ UNCHANGED <<chrome_version, headers, first_name, last_name, op, pc, driver,
                   response, flights, outcome, log, entry, sessions, calls,
                   request_headers, needed, refiltered, username, password,
                   response_body, trips_body>>

\* needed = WebDriver._get_needed_headers(request_headers)
CallNeededHeaders ==
    /\ pc = "idle"
    /\ needed' = get_needed_headers(request_headers)
    /\ pc' = "filtered"
    /\ UNCHANGED <<chrome_version, options, headers, first_name, last_name, op,
                   driver, response, flights, outcome, log, entry, sessions, calls,
                   request_headers, refiltered, username, password, response_body,
                   trips_body>>

\* refiltered = WebDriver._get_needed_headers(needed)
CallNeededHeadersAgain ==
    /\ pc = "filtered"
    /\ refiltered' = get_needed_headers(needed)
    /\ pc' = "refiltered"
    /\ UNCHANGED <<chrome_version, options, headers, first_name, last_name, op,
                   driver, response, flights, outcome, log, entry, sessions, calls,
                   request_headers, needed, username, password, response_body,
                   trips_body>>

NextUnit ==
    \/ Construct
    \/ CallNeededHeaders
    \/ CallNeededHeadersAgain

SpecUnit == InitUnit /\ [][NextUnit]_vars

(***************************************************************************)
(* The allow-list as the specification words it, stated without the        *)
(* matcher: a name is retained when, letter case aside, it begins with the *)
(* API-key marker, the channel-id marker or the user-agent field name, or  *)
(* when it is a suffix-tagged technical header: word characters and        *)
(* hyphens, closed by a hyphen and one single word character.              *)
(***************************************************************************)
Folded(name) == [i \in 1..Len(name) |-> Lower(name[i])]

StartsWith(s, prefix) ==
    Len(s) >= Len(prefix) /\ SubSeq(s, 1, Len(prefix)) = prefix

\* The name without the line end that may close it.
Chomp(name) ==
    IF Len(name) > 0 /\ name[Len(name)] = "\n"
    THEN SubSeq(name, 1, Len(name) - 1)
    ELSE name

SuffixTagged(name) ==
    LET core == Chomp(name)
        n == Len(core)
    IN  /\ n >= 3
        /\ IsWord(core[n])
        /\ core[n - 1] = "-"
        /\ \A i \in 1..(n - 2) : IsWord(core[i]) \/ core[i] = "-"

AllowListed(name) ==
    \/ StartsWith(Folded(name), PatApiKey)
    \/ StartsWith(Folded(name), PatChannelId)
    \/ StartsWith(Folded(name), PatUserAgent)
    \/ SuffixTagged(name)

\* The names of the model's pool that are on the allow-list.
AllowListedNames == {n \in HeaderNames : AllowListed(n)}

\* C1: _get_needed_headers returns exactly the entries of its argument whose
\* names are on the allow-list, case-insensitively, each with its original
\* name and value, and no other entry.
C1_FilterKeepsExactlyAllowListed ==
    pc = "filtered" =>
        Items(needed) = {p \in Items(request_headers) : p[1] \in AllowListedNames}

\* C1 witness: a call whose argument holds a mixed-case API-key header and a
\* Cookie header returned the former and dropped the latter.
C1_Witness ==
    /\ pc = "filtered"
    /\ Keys(request_headers) = {NameApiKey, NameCookie}
    /\ Keys(needed) = {NameApiKey}
    /\ DictGet(needed, NameApiKey) = DictGet(request_headers, NameApiKey)

\* The k-th smallest element of a set of indices.
Kth(idx, k) == CHOOSE i \in idx : Cardinality({j \in idx : j <= i}) = k

\* The indices of the listing's entries whose tripType equals "FLIGHT".
FlightIndices(listing) ==
    {i \in 1..Len(listing) :
        /\ "tripType" \in Keys(listing[i])
        /\ DictGet(listing[i], "tripType") = "FLIGHT"}

\* C2: a successful get_flights returns exactly the entries of the listing
\* whose tripType equals "FLIGHT", in their original relative order.
C2_ReturnsFlightsInOrder ==
    (op = "get_flights" /\ outcome.kind = "return") =>
        LET idx == FlightIndices(flights)
        IN  /\ Len(outcome.value) = Cardinality(idx)
            /\ \A k \in 1..Len(outcome.value) : outcome.value[k] = flights[Kth(idx, k)]

\* C2 witness: a listing of two different flights was returned whole, in the
\* listing's order.
C2_Witness ==
    /\ op = "get_flights"
    /\ outcome.kind = "return"
    /\ flights = <<Trip("FLIGHT", "BBB222"), Trip("FLIGHT", "AAA111")>>
    /\ outcome.value = flights

\* C2, second case: a listing of a car and a flight returned the flight alone.
C2_WitnessMixed ==
    /\ op = "get_flights"
    /\ outcome.kind = "return"
    /\ flights = <<Trip("CAR", "CCC333"), Trip("FLIGHT", "AAA111")>>
    /\ outcome.value = <<Trip("FLIGHT", "AAA111")>>

\* C3: after a successful get_flights both identity fields are populated, and
\* a successful get_flights that found the first name set left both unchanged.
C3_IdentityPopulatedOnceThenFixed ==
    (op = "get_flights" /\ outcome.kind = "return") =>
        /\ first_name # None
        /\ last_name # None
        /\ entry.first_name # None =>
              (first_name = entry.first_name /\ last_name = entry.last_name)

\* The value of a decimal digit, and of a text of decimal digits.
DigitValue(c) == (CHOOSE i \in 1..Len(DigitSeq) : DigitSeq[i] = c) - 1

RECURSIVE ParseNat(_)
ParseNat(d) ==
    IF Len(d) = 0 THEN 0
    ELSE 10 * ParseNat(SubSeq(d, 1, Len(d) - 1)) + DigitValue(d[Len(d)])

\* A text is the decimal rendering of n.
IsDecimalOf(d, n) ==
    /\ Len(d) >= 1
    /\ \A i \in 1..Len(d) : d[i] \in Range(DigitSeq)
    /\ Len(d) > 1 => d[1] # "0"
    /\ ParseNat(d) = n

\* C4: in get_flights a first response with a status code other than 200 ends
\* the invocation with a LoginError whose detail is that code as a string;
\* neither the identity nor the trips are extracted, the account's names are
\* as they were and nothing is returned.
C4_Non200RaisesLoginError ==
    (op = "get_flights" /\ response.present /\ response.status_code # 200) =>
        /\ pc = "done"
        /\ outcome.kind = "raise"
        /\ outcome.exc = "LoginError"
        /\ IsDecimalOf(outcome.detail, response.status_code)
        /\ "identity" \notin Range(log)
        /\ "trips" \notin Range(log)
        /\ first_name = entry.first_name
        /\ last_name = entry.last_name

\* C4 witness: a login answered 403 raised LoginError("403").
C4_Witness ==
    /\ op = "get_flights"
    /\ response.present
    /\ response.status_code = 403
    /\ outcome = Raised("LoginError", <<"4", "0", "3">>)

\* C5: in get_flights a first response with status code 200 raises no
\* LoginError; the statement after the check is the identity extraction when
\* the first name was unset and the trip extraction otherwise, and the trip
\* extraction follows the identity extraction.
C5_Status200Proceeds ==
    (op = "get_flights" /\ response.present /\ response.status_code = 200) =>
        LET after == IF entry.first_name = None THEN "identity" ELSE "trips"
        IN  /\ outcome.exc # "LoginError"
            /\ \A i \in 1..Len(log) :
                  /\ (log[i] = "status" /\ i < Len(log)) => log[i + 1] = after
                  /\ (log[i] = "status" /\ i = Len(log)) => pc = after
                  /\ (log[i] = "identity" /\ i < Len(log)) => log[i + 1] = "trips"

\* C5 witness: a 200 login of an account without a name went through the
\* identity extraction and stands at the trip extraction.
C5_Witness ==
    /\ op = "get_flights"
    /\ response.present
    /\ response.status_code = 200
    /\ pc = "trips"
    /\ log[Len(log)] = "identity"
    /\ first_name # None

\* C6: a set_headers that fails before its capture completed (a wait timed
\* out, or no request was intercepted) leaves the header set as it was when
\* the invocation started.
C6_FailedProbeKeepsHeaders ==
    (op = "set_headers" /\ outcome.kind = "raise") =>
        /\ headers = entry.headers
        /\ log[Len(log)] \in AllWaitSteps \cup {"capture", "Chrome", "get"}

\* C6 witness: a probe found no intercepted request after the settle
\* interval while the scheduler held a non-empty header set.
C6_Witness ==
    /\ op = "set_headers"
    /\ outcome = Raised("IndexError", <<>>)
    /\ entry.headers # EmptyDict
    /\ headers = entry.headers

\* C7: when set_headers or get_flights returns, the session the invocation
\* created has been quit, and the quit precedes the return.
C7_ReturnAfterQuit ==
    outcome.kind = "return" =>
        /\ driver.created
        /\ ~driver.open
        /\ \E i \in 1..Len(log) : log[i] = "quit" /\ i < Len(log)
        /\ log[Len(log)] = "return"

\* C7 witness: a get_flights returned a flight with its session closed.
C7_Witness ==
    /\ op = "get_flights"
    /\ outcome.kind = "return"
    /\ Len(outcome.value) = 1
    /\ ~driver.open

\* The capture step of the current invocation wrote the header set.
CaptureSucceeded ==
    \E i \in 1..Len(log) : log[i] = "capture" /\ (i < Len(log) \/ pc # "done")

\* C8: after a successful header acquisition the scheduler's header set is
\* the allow-listed part of the first intercepted request's headers and
\* nothing else: no entry of the previous header set survives on its own.
C8_HeadersReplacedWholesale ==
    CaptureSucceeded =>
        /\ Items(headers) = {p \in Items(driver.headers0) : p[1] \in AllowListedNames}
        /\ Keys(headers) \subseteq AllowListedNames

\* C8 witness: the scheduler held an API-key header, the new request carried
\* none, and the new header set is not empty and has no API-key header.
C8_Witness ==
    /\ CaptureSucceeded
    /\ NameApiKey \in Keys(entry.headers)
    /\ Keys(headers) = {NameTagged}

\* C9: the newer headless flag is chosen when the version hint is absent or
\* at least 109, the legacy flag otherwise, and exactly one of the two is added.
C9_HeadlessByThreshold ==
    options # <<>> =>
        LET new == "--headless=new" \in Range(options)
            legacy == "--headless=chrome" \in Range(options)
        IN  /\ new = (chrome_version = Absent \/ chrome_version[1] >= HeadlessThreshold)
            /\ legacy = ~new

\* Within one invocation no step (session construction, wait, submission,
\* capture, ...) has been performed twice, and an invocation that raised has
\* stopped.
EachStepOnce ==
    /\ \A i, j \in 1..Len(log) : log[i] = log[j] => i = j
    /\ outcome.kind = "raise" => pc = "done"

\* C10: no internal retry: each step of an invocation is performed at most
\* once, the first failure ends the invocation, and after its end nothing
\* happens but the scheduler's next call.
C10_NoRetry ==
    /\ []EachStepOnce
    /\ [][pc = "done" => (pc' = "Chrome" /\ log' = <<>>)]_vars

\* C10 witness: the first-name wait of a probe timed out after the
\* confirmation-number wait had succeeded; each was tried once.
C10_Witness ==
    /\ op = "set_headers"
    /\ outcome = Raised("TimeoutException", <<>>)
    /\ log = <<"Chrome", "scopes", "get", "recordLocator", "firstName">>

\* Whether s is an initial segment of t.
IsPrefix(s, t) == Len(s) <= Len(t) /\ s = SubSeq(t, 1, Len(s))

\* The steps of a set_headers invocation that runs to its end.
ProbeOrder ==
    <<"Chrome", "scopes", "get", "recordLocator", "firstName", "lastName", "submit",
      "sleep", "capture", "quit", "return">>

\* C11: set_headers is one straight line: the confirmation number, the first
\* name and the last name are waited for and filled in, the form is submitted,
\* the settle interval elapses, the header set is replaced from the first
\* intercepted request, the session is quit.  What an invocation has done is
\* always an initial segment of that line, a returned invocation has done all
\* of it, and the header set is not written before the submit and the settle
\* interval.
C11_ProbeIsSequential ==
    op = "set_headers" =>
        /\ IsPrefix(log, ProbeOrder)
        /\ outcome.kind = "return" => log = ProbeOrder
        /\ ~IsPrefix(SubSeq(ProbeOrder, 1, 9), log) => headers = entry.headers

\* C11 witness: a probe ran to its end and replaced a header set by another.
C11_Witness ==
    /\ op = "set_headers"
    /\ outcome.kind = "return"
    /\ log = ProbeOrder
    /\ headers # entry.headers
    /\ entry.headers # EmptyDict

\* The position of a step in the steps performed so far, 0 if it has not run.
Pos(step) ==
    IF \E i \in 1..Len(log) : log[i] = step
    THEN CHOOSE i \in 1..Len(log) : log[i] = step
    ELSE 0

\* The steps of a get_flights invocation up to the status check.
LoginOrder ==
    <<"Chrome", "scopes", "get", "login-button--box", "userNameOrAccountNumber",
      "password", "submit", "sleep", "capture", "status">>

\* C12: get_flights refreshes the header set before it inspects the login
\* status: the status check never runs before the capture step, a get_flights
\* that failed on a non-200 status has already replaced the header set by the
\* allow-listed headers of the first intercepted request, and a get_flights
\* that failed at a wait step leaves the header set as it was.
C12_HeadersRefreshedBeforeStatus ==
    op = "get_flights" =>
        /\ Pos("status") # 0 => (Pos("capture") # 0 /\ Pos("capture") < Pos("status"))
        /\ outcome.exc = "LoginError" =>
               /\ log = LoginOrder
               /\ Items(headers) =
                      {p \in Items(driver.headers0) : p[1] \in AllowListedNames}
        /\ outcome.exc = "TimeoutException" =>
               /\ log[Len(log)] \in Range(WaitSteps("get_flights"))
               /\ headers = entry.headers

\* C12 witness: a login was refused with 403 and the header set the scheduler
\* held before the call has been replaced by a different one.
C12_Witness ==
    /\ op = "get_flights"
    /\ outcome = Raised("LoginError", StrNat(403))
    /\ entry.headers # EmptyDict
    /\ headers # entry.headers
    /\ headers # EmptyDict

\* The invocation ended in an exception after its session had been created.
FailedWithSession == outcome.kind = "raise" /\ driver.created

\* The session of the invocation was never quit and is one more open session.
SessionLeftOpen ==
    /\ driver.open
    /\ Pos("quit") = 0
    /\ sessions = entry.sessions + 1

LookupFailedAt(step) ==
    /\ pc = "done"
    /\ outcome = Raised("KeyError", <<>>)
    /\ log[Len(log)] = step

\* What get_flights has written by the time it reads the trips: the header
\* set, and the identity when the first name was unset at entry.
WrittenBeforeTrips ==
    /\ Pos("capture") # 0
    /\ Items(headers) = {p \in Items(driver.headers0) : p[1] \in AllowListedNames}
    /\ entry.first_name = None =>
           /\ Pos("identity") # 0
           /\ first_name = DictGet(response_body.json, FIRST_NAME_KEY)
           /\ last_name = DictGet(response_body.json, LAST_NAME_KEY)

\* Some entry of the trips listing has no "tripType" key.
UntypedEntry == \E i \in 1..Len(flights) : "tripType" \notin Keys(flights[i])

\* C14: in a get_flights whose login status was 200, a first response body
\* without the first-name or last-name key (read because the first name was
\* unset), a second response body without the upcomingTripsPage key, and a
\* trips entry without tripType each end the invocation in a KeyError with
\* nothing returned: no name is defaulted and no list is substituted.  The
\* two trips failures occur with the header set already replaced and, when
\* the first name was unset at entry, both names already written.
C14_LookupFailuresAreHard ==
    (op = "get_flights" /\ pc = "done") =>
        /\ (response_body.assigned
              /\ ~({FIRST_NAME_KEY, LAST_NAME_KEY} \subseteq Keys(response_body.json))) =>
               /\ LookupFailedAt("identity")
               /\ first_name = IF FIRST_NAME_KEY \in Keys(response_body.json)
                                THEN DictGet(response_body.json, FIRST_NAME_KEY)
                                ELSE None
               /\ last_name = entry.last_name
               /\ ~trips_body.assigned
        /\ (trips_body.assigned /\ TRIPS_KEY \notin Keys(trips_body.json)) =>
               /\ LookupFailedAt("trips")
               /\ flights = <<>>
               /\ WrittenBeforeTrips
        /\ (trips_body.assigned /\ UntypedEntry) =>
               /\ LookupFailedAt("return")
               /\ WrittenBeforeTrips

\* C14 witness: a first login wrote the header set and both names, and the
\* second response body then had no upcomingTripsPage key.
C14_Witness ==
    /\ op = "get_flights"
    /\ LookupFailedAt("trips")
    /\ trips_body = Parsed(EmptyDict)
    /\ entry.first_name = None
    /\ first_name = "Ann"
    /\ last_name = "Lee"
    /\ headers # entry.headers

\* The account fields are what they were when the invocation started.
AccountAsAtEntry ==
    /\ first_name = entry.first_name
    /\ last_name = entry.last_name
    /\ username = entry.username
    /\ password = entry.password

\* C15: set_headers has no output beyond the header set: at every point of a
\* set_headers invocation, failed or not, the first name, the last name and
\* the credentials are what they were at its start, and what it returns is
\* None (the empty value); the identity fields change only in the identity
\* step of get_flights, and the credentials never change.
C15_ProbeOnlyWritesHeaders ==
    /\ [](op = "set_headers" =>
             /\ AccountAsAtEntry
             /\ outcome.value = <<>>)
    /\ [][/\ (first_name' # first_name \/ last_name' # last_name) =>
                 (op = "get_flights" /\ pc = "identity")
          /\ username' = username
          /\ password' = password]_vars

\* C15 witness: a probe ran to its end for an account whose names an earlier
\* login had set, and replaced the header set.
C15_Witness ==
    /\ op = "set_headers"
    /\ outcome.kind = "return"
    /\ first_name = "Ann"
    /\ last_name = "Lee"
    /\ headers # entry.headers

\* The steps of the two flows, as opposed to those of the session factory.
FlowSteps ==
    AllWaitSteps \cup {"submit", "sleep", "capture", "status", "identity", "trips",
                       "quit", "return"}

FactorySteps == {"Chrome", "scopes", "get"}

\* C16: _get_driver restricts the interception scope to exactly the login,
\* trips and reservation URLs before it navigates: whenever the navigation
\* has been started, a page is loaded or a request has been intercepted, the
\* scope is those three URLs.  A flow step runs only after the navigation
\* completed, on the check-in page, and a failure of the construction or of
\* the navigation ends the invocation with factory steps only and with the
\* header set and the account untouched.
C16_ScopedBeforeNavigation ==
    /\ (Pos("get") # 0 \/ driver.url # "" \/ driver.requests > 0) =>
           /\ driver.scopes = <<LOGIN_URL, TRIPS_URL, RESERVATION_URL>>
           /\ Pos("scopes") # 0 /\ Pos("scopes") < Pos("get")
    /\ \A i \in 1..Len(log) :
           log[i] \in FlowSteps =>
               /\ driver.url = CHECKIN_URL
               /\ Pos("get") # 0 /\ Pos("get") < i
    /\ pc \in FlowSteps => (driver.url = CHECKIN_URL /\ Pos("get") # 0)
    /\ outcome.exc = "WebDriverException" =>
           /\ Range(log) \subseteq FactorySteps
           /\ log[Len(log)] \in {"Chrome", "get"}
           /\ headers = entry.headers
           /\ AccountAsAtEntry

\* C16 witness: the factory has just handed a scoped session on the check-in
\* page to get_flights, which has run no step of its own yet.
C16_Witness ==
    /\ op = "get_flights"
    /\ pc = "login-button--box"
    /\ log = <<"Chrome", "scopes", "get">>
    /\ driver.url = CHECKIN_URL
    /\ driver.scopes = <<LOGIN_URL, TRIPS_URL, RESERVATION_URL>>
    /\ driver.requests = 0

\* C17: the first name and the last name are either both unset or both set,
\* also after a get_flights that failed during identity extraction.
C17_NamesSetTogether == (first_name = None) <=> (last_name = None)

\* The steps that read the session: its page, its intercepted requests.
SessionSteps ==
    AllWaitSteps \cup {"scopes", "get", "submit", "sleep", "capture", "status", "trips"}

\* C18: an invocation constructs a session once, as its first step, and that
\* session is the only one it adds to the open sessions; it quits the session
\* at most once; after the quit it performs nothing but the return, so no
\* page or intercepted request is read from a quit session; and get_flights
\* reads the second intercepted response before the quit.
C18_OneSessionPerInvocation ==
    /\ \A i \in 1..Len(log) : (log[i] = "Chrome") = (i = 1)
    /\ sessions = entry.sessions + (IF driver.open THEN 1 ELSE 0)
    /\ driver.open => driver.created
    /\ \A i, j \in 1..Len(log) :
           /\ (log[i] = "quit" /\ log[j] = "quit") => i = j
           /\ (log[i] = "quit" /\ i < j) => (log[j] = "return" /\ log[j] \notin SessionSteps)
    /\ (driver.created /\ ~driver.open) => (Pos("quit") # 0 /\ pc \in {"return", "done"})
    /\ (op = "get_flights" /\ Pos("quit") # 0) =>
           (Pos("trips") # 0 /\ Pos("trips") < Pos("quit"))

\* C18 witness: a get_flights returned: it read the trips, then quit its one
\* session, and the open sessions are as many as before the call.
C18_Witness ==
    /\ op = "get_flights"
    /\ outcome.kind = "return"
    /\ Pos("trips") = 11
    /\ Pos("quit") = 12
    /\ ~driver.open
    /\ sessions = entry.sessions
    /\ entry.sessions = 1

(***************************************************************************)
(* Termination.  The interpreter runs the next statement of an invocation: *)
(* a blocking call returns or raises, time.sleep(10) ends, and a           *)
(* WebDriverWait(driver, 30) that has not found its element raises after   *)
(* its 30 seconds.  That an element is ever found is not assumed, and      *)
(* neither is that the scheduler calls again.                              *)
(***************************************************************************)
Progress ==
    \/ ChromeStarts
    \/ ChromeFails
    \/ SetScopes
    \/ Navigate
    \/ NavigateFails
    \/ WaitTimeout
    \/ Submit
    \/ Sleep
    \/ Capture
    \/ Status
    \/ Identity
    \/ Trips
    \/ Quit
    \/ ReturnNone
    \/ ReturnFlights

SpecFair == Spec /\ WF_vars(Progress)

Running == pc \notin {"idle", "done"}

\* C19: every invocation of set_headers and get_flights that has started
\* eventually ends, by a return or by an exception, also when a required
\* element never appears.
C19_EveryInvocationEnds ==
    Running ~> (pc = "done" /\ outcome.kind \in {"return", "raise"})

\* C19 witness: the password field of the login form never appeared and the
\* get_flights ended in the timeout of its wait.
C19_Witness ==
    /\ op = "get_flights"
    /\ pc = "done"
    /\ outcome = Raised("TimeoutException", <<>>)
    /\ log[Len(log)] = "password"

\* C20: _get_needed_headers applied to its own result returns that result
\* again; the names it returns are names of its argument; and the argument is
\* the same header set after the call as before.
C20_FilterIdempotent ==
    /\ [](pc = "refiltered" =>
             /\ refiltered = needed
             /\ Keys(needed) \subseteq Keys(request_headers)
             /\ Keys(refiltered) \subseteq Keys(needed))
    /\ [][request_headers' = request_headers]_vars

\* C20 witness: of a Cookie header and a suffix-tagged header whose name ends
\* in a line end, the filter kept the latter, and kept it again.
C20_Witness ==
    /\ pc = "refiltered"
    /\ Keys(request_headers) = {NameCookie, NameTaggedNewline}
    /\ Keys(needed) = {NameTaggedNewline}
    /\ refiltered = needed

====
